---- MODULE Spec2Model ----
(***************************************************************************)
(* sync-versions-poetry: the check of the additional_dependencies of a     *)
(* pre-commit configuration against the versions locked in poetry.lock.    *)
(*                                                                         *)
(* Strings are sequences of tokens.  Every character of a dependency       *)
(* specifier, of a package name and of a version is one token (a one       *)
(* character string); the fixed texts of the problem descriptions are one  *)
(* token each.  Concatenation (fmt.Sprintf, fmt.Sprint) is \o.             *)
(*                                                                         *)
(* The PEP 440 library (github.com/aquasecurity/go-pep440-version) is      *)
(* modelled on release-only versions: digits and dots, with the optional   *)
(* trailing ".*" of a specifier.  Every version and constraint the model   *)
(* draws stays inside that domain.                                         *)
(***************************************************************************)
EXTENDS Integers, Sequences, FiniteSets, Bags, TLC

VARIABLES
    pc,         \* position of the run: see Run
    config,     \* preCommitConfig: Seq of repos, a repo is a Seq of hooks
    lockfile,   \* poetryLock.Package: Seq of [Name, Version]
    args,       \* the hook ids given to the command (Seq of ids)
    depspec,    \* the dependency specifier handed to checkVersion
    outcome,    \* what checkVersion / checkVersions produced
    stdout,     \* the lines printed so far
    exitStatus  \* the status the process ended with, -1 while it runs

vars == <<pc, config, lockfile, args, depspec, outcome, stdout, exitStatus>>

----------------------------------------------------------------------------
(* Characters *)

LowerSeq == <<"a","b","c","d","e","f","g","h","i","j","k","l","m",
              "n","o","p","q","r","s","t","u","v","w","x","y","z">>
UpperSeq == <<"A","B","C","D","E","F","G","H","I","J","K","L","M",
              "N","O","P","Q","R","S","T","U","V","W","X","Y","Z">>
DigitSeq == <<"0","1","2","3","4","5","6","7","8","9">>

Range(f) == {f[i] : i \in DOMAIN f}

Lower == Range(LowerSeq)
Upper == Range(UpperSeq)
Digit == Range(DigitSeq)

\* [a-zA-Z0-9]
Alnum == Lower \cup Upper \cup Digit
\* [-_.]
Separators == {"-", "_", "."}
\* \s of Go's regexp, and the ASCII part of unicode.IsSpace
Space == {" ", "\t", "\n", "\r", "\f"}
\* (?:[a-zA-Z0-9]|[-_.*+!])
VersionChars == Alnum \cup {"-", "_", ".", "*", "+", "!"}

----------------------------------------------------------------------------
(* Go's strings package *)

Min(a, b) == IF a < b THEN a ELSE b
Max(a, b) == IF a > b THEN a ELSE b

\* s[i..j] (Go's s[i-1:j]), cut to the string and empty when j < i
Slice(s, i, j) ==
    LET lo == Max(i, 1)
        hi == Min(j, Len(s))
    IN  IF hi < lo THEN <<>> ELSE SubSeq(s, lo, hi)

\* The first position >= i holding a character outside S, Len(s)+1 if none.
SkipSet(s, i, S) ==
    CHOOSE j \in i..(Len(s) + 1) :
        /\ \A k \in i..(j - 1) : s[k] \in S
        /\ (j <= Len(s) => s[j] \notin S)

\* strings.TrimSpace
TrimSpace(s) ==
    LET b == SkipSet(s, 1, Space)
        e == IF b > Len(s) THEN 0
             ELSE CHOOSE j \in b..Len(s) :
                      /\ s[j] \notin Space
                      /\ \A k \in (j + 1)..Len(s) : s[k] \in Space
    IN  Slice(s, b, e)

\* strings.IndexAny: the first position holding a character of S, 0 if none
\* (Go's -1; positions here start at 1).
IndexAny(s, S) ==
    LET j == SkipSet(s, 1, {s[k] : k \in DOMAIN s} \ S)
    IN  IF j > Len(s) THEN 0 ELSE j

\* strings.Contains
Contains(s, sub) ==
    \E i \in 1..(Len(s) - Len(sub) + 1) : Slice(s, i, i + Len(sub) - 1) = sub

\* strings.HasSuffix
HasSuffix(s, suf) ==
    Len(s) >= Len(suf) /\ Slice(s, Len(s) - Len(suf) + 1, Len(s)) = suf

----------------------------------------------------------------------------
(* The grammar of a dependency specifier: pat and the patterns it is made  *)
(* of.  Go's regexp is leftmost-first; every repetition below is followed  *)
(* by a character outside the repeated class, so the greedy choice is the  *)
(* only one that can match and the scan is deterministic.                  *)

NoMatch == [ok |-> FALSE, clauses |-> <<>>]

\* identifierPat with the separators taken one at a time,
\* [a-zA-Z0-9]+(?:[-_.][a-zA-Z0-9]+)*: the identifier ends before the first
\* separator that follows a separator.
identifierPatSingle(s, i) ==
    IF i > Len(s) \/ s[i] \notin Alnum THEN 0
    ELSE LET Stops(j) ==
                 \/ j > Len(s)
                 \/ s[j] \notin Alnum \cup Separators
                 \/ (s[j] \in Separators /\ s[j - 1] \in Separators)
             j == CHOOSE x \in (i + 1)..(Len(s) + 1) :
                      Stops(x) /\ \A k \in (i + 1)..(x - 1) : ~Stops(k)
         IN  1 + CHOOSE e \in i..(j - 1) :
                     /\ s[e] \in Alnum
                     /\ \A k \in (e + 1)..(j - 1) : s[k] \notin Alnum

\* identifierPat at position i: the position after the identifier, 0 if s[i]
\* does not start one.  [a-zA-Z0-9](?:[-_.]*[a-zA-Z0-9])* ends at the last
\* alphanumeric character of the longest run of name characters.
identifierPat(s, i) ==
    IF i > Len(s) \/ s[i] \notin Alnum THEN 0
    ELSE LET j == SkipSet(s, i, Alnum \cup Separators)
         IN  1 + CHOOSE e \in i..(j - 1) :
                     /\ s[e] \in Alnum
                     /\ \A k \in (e + 1)..(j - 1) : s[k] \notin Alnum

\* The rest of the identifier list of extrasPat, (?:\s*,\s*identifier)*\s*\],
\* from position i: the position after the closing bracket, 0 if no match.
RECURSIVE extrasTail(_, _)
extrasTail(s, i) ==
    LET a == SkipSet(s, i, Space)
    IN  IF a > Len(s) THEN 0
        ELSE IF s[a] = "]" THEN a + 1
        ELSE IF s[a] = ","
             THEN LET b == SkipSet(s, a + 1, Space)
                      c == identifierPat(s, b)
                  IN  IF c = 0 THEN 0 ELSE extrasTail(s, c)
        ELSE 0

\* extrasPat at position i (s[i] is the opening bracket): the position after
\* the closing bracket, 0 if no match.
extrasPat(s, i) ==
    LET a == SkipSet(s, i + 1, Space)
        c == identifierPat(s, a)
    IN  IF a > Len(s) THEN 0
        ELSE IF s[a] = "]" THEN a + 1
        ELSE IF c = 0 THEN 0
        ELSE extrasTail(s, c)

\* The comparator of versionOnePat at position i: its length, 0 if none.
\* (?:<|<=|!=|==|>=|>|~=|===): no comparator character is a version
\* character or a space, so only the longest alternative can be followed by
\* the rest of the clause.
operatorLen(s, i) ==
    IF Slice(s, i, i + 2) = <<"=", "=", "=">> THEN 3
    ELSE IF Slice(s, i, i + 1) \in
                {<<"<", "=">>, <<"!", "=">>, <<"=", "=">>, <<">", "=">>, <<"~", "=">>}
         THEN 2
    ELSE IF Slice(s, i, i) \in {<<"<">>, <<">">>} THEN 1
    ELSE 0

\* versionManyPat against the whole of s from position i: the clauses
\* (comparator, version text) in order, or NoMatch.
RECURSIVE versionManyPat(_, _)
versionManyPat(s, i) ==
    LET a == SkipSet(s, i, Space)
        n == operatorLen(s, a)
        b == SkipSet(s, a + n, Space)
        c == SkipSet(s, b, VersionChars)
        d == SkipSet(s, c, Space)
        clause == [operator |-> Slice(s, a, a + n - 1), version |-> Slice(s, b, c - 1)]
    IN  IF n = 0 \/ c = b THEN NoMatch
        ELSE IF d > Len(s) THEN [ok |-> TRUE, clauses |-> <<clause>>]
        ELSE IF s[d] = ","
             THEN LET rest == versionManyPat(s, d + 1)
                  IN  IF rest.ok
                      THEN [ok |-> TRUE, clauses |-> <<clause>> \o rest.clauses]
                      ELSE NoMatch
        ELSE NoMatch

\* versionspecPat against the whole of r: \(versionMany\)|versionMany
versionspecPat(r) ==
    IF Len(r) > 0 /\ r[1] = "("
    THEN r[Len(r)] = ")" /\ versionManyPat(Slice(r, 2, Len(r) - 1), 1).ok
    ELSE versionManyPat(r, 1).ok

\* pat.FindStringSubmatch(s): matches = nil is ok = FALSE; name is
\* matches[1], rawVersion is matches[2] (empty when the group took no part).
pat(s) ==
    LET none == [ok |-> FALSE, name |-> <<>>, rawVersion |-> <<>>]
        e  == identifierPat(s, 1)
        p1 == SkipSet(s, e, Space)
        p2 == IF p1 <= Len(s) /\ s[p1] = "[" THEN extrasPat(s, p1) ELSE p1
        p3 == SkipSet(s, p2, Space)
        rest == Slice(s, p3, Len(s))
    IN  IF e = 0 \/ p2 = 0 THEN none
        ELSE IF p3 > Len(s)
             THEN [ok |-> TRUE, name |-> Slice(s, 1, e - 1), rawVersion |-> <<>>]
        ELSE IF versionspecPat(rest)
             THEN [ok |-> TRUE, name |-> Slice(s, 1, e - 1), rawVersion |-> rest]
        ELSE none

----------------------------------------------------------------------------
(* github.com/aquasecurity/go-pep440-version, on release-only versions *)

DigitValue(c) == (CHOOSE i \in DOMAIN DigitSeq : DigitSeq[i] = c) - 1

\* strconv.Atoi of a run of digits
RECURSIVE Atoi(_)
Atoi(ds) ==
    IF Len(ds) = 0 THEN 0
    ELSE 10 * Atoi(Slice(ds, 1, Len(ds) - 1)) + DigitValue(ds[Len(ds)])

\* The release segments of v from position i, v[i..] being
\* [0-9]+(?:\.[0-9]+)*; the empty sequence if it is not.
RECURSIVE ReleaseFrom(_, _)
ReleaseFrom(v, i) ==
    LET j == SkipSet(v, i, Digit)
    IN  IF j = i THEN <<>>
        ELSE IF j > Len(v) THEN <<Atoi(Slice(v, i, j - 1))>>
        ELSE IF v[j] = "."
             THEN LET rest == ReleaseFrom(v, j + 1)
                  IN  IF rest = <<>> THEN <<>>
                      ELSE <<Atoi(Slice(v, i, j - 1))>> \o rest
        ELSE <<>>

\* version.Parse: err is ok = FALSE; release holds the numeric segments.
Parse(v) ==
    LET t == TrimSpace(v)
        r == ReleaseFrom(t, 1)
    IN  [ok |-> r # <<>>, release |-> r]

\* The release with trailing zero segments up to length n (padVersion, and
\* the zero padding of Version.Compare).
Pad(r, n) == [i \in 1..Max(n, Len(r)) |-> IF i <= Len(r) THEN r[i] ELSE 0]

\* Version.Compare on releases: -1, 0 or 1
Compare(a, b) ==
    LET n  == Max(Len(a), Len(b))
        pa == Pad(a, n)
        pb == Pad(b, n)
        diff == {i \in 1..n : pa[i] # pb[i]}
    IN  IF diff = {} THEN 0
        ELSE LET k == CHOOSE i \in diff : \A j \in diff : i <= j
             IN  IF pa[k] < pb[k] THEN 0 - 1 ELSE 1

\* strconv.Itoa
RECURSIVE Itoa(_)
Itoa(n) ==
    IF n < 10 THEN <<DigitSeq[n + 1]>>
    ELSE Itoa(n \div 10) \o <<DigitSeq[(n % 10) + 1]>>

\* Version.String: the segments joined by dots
RECURSIVE String(_)
String(r) ==
    IF Len(r) = 0 THEN <<>>
    ELSE IF Len(r) = 1 THEN Itoa(r[1])
    ELSE Itoa(r[1]) \o <<".">> \o String(Slice(r, 2, Len(r)))

Wildcard == <<".", "*">>

hasWildcard(version) == HasSuffix(version, Wildcard)
TrimWildcard(version) ==
    IF hasWildcard(version) THEN Slice(version, 1, Len(version) - 2) ELSE version

\* newSpecifier and validate: whether one clause is a valid specifier.
validate(clause) ==
    LET v == Parse(TrimWildcard(clause.version))
        op == clause.operator
    IN  /\ v.ok
        /\ \/ op = <<"=", "=", "=">>
           \/ op \in {<<"=", "=">>, <<"!", "=">>}
           \/ op = <<"~", "=">> /\ ~hasWildcard(clause.version) /\ Len(v.release) >= 2
           \/ op \in {<<"<">>, <<"<", "=">>, <<">">>, <<">", "=">>}
              /\ ~hasWildcard(clause.version)

\* version.NewSpecifiers(rawVersion), for a rawVersion that pat captured:
\* err is ok = FALSE.  The library's own pattern takes no parentheses.
NewSpecifiers(rawVersion) ==
    LET m == versionManyPat(rawVersion, 1)
    IN  IF m.ok /\ \A i \in DOMAIN m.clauses : validate(m.clauses[i])
        THEN m
        ELSE NoMatch

\* specifierEqual: exact match with zero padding, or prefix match for ".*"
specifierEqual(release, version) ==
    LET spec == Parse(TrimWildcard(version)).release
    IN  IF hasWildcard(version)
        THEN Compare(Slice(release, 1, Len(spec)), spec) = 0
        ELSE Compare(release, spec) = 0

\* One clause of Specifiers.Check against the locked release.
checkClause(release, clause) ==
    LET op == clause.operator
        spec == Parse(TrimWildcard(clause.version)).release
    IN  CASE op = <<"=", "=", "=">> -> String(release) = clause.version
          [] op = <<"=", "=">> -> specifierEqual(release, clause.version)
          [] op = <<"!", "=">> -> ~specifierEqual(release, clause.version)
          [] op = <<"<", "=">> -> Compare(release, spec) <= 0
          [] op = <<">", "=">> -> Compare(release, spec) >= 0
          [] op = <<"<">> -> Compare(release, spec) < 0
          [] op = <<">">> -> Compare(release, spec) > 0
          [] op = <<"~", "=">> ->
                /\ Compare(release, spec) >= 0
                /\ Compare(Slice(release, 1, Len(spec) - 1),
                           Slice(spec, 1, Len(spec) - 1)) = 0

\* Specifiers.Check: every clause of the comma-separated list holds.
Check(versionSpec, release) ==
    \A i \in DOMAIN versionSpec.clauses : checkClause(release, versionSpec.clauses[i])

----------------------------------------------------------------------------
(* checkVersion *)

EqEq == <<"=", "=">>

\* What a call produced: it returned problem, or it panicked.
Returned(problem) == [panic |-> FALSE, problem |-> problem]
Panicked == [panic |-> TRUE, problem |-> <<>>]

\* lockedPackages with the first entry of a name kept and later ones of the
\* same name ignored.
lockedPackagesFirstWins(lock) ==
    [n \in {lock[i].Name : i \in DOMAIN lock} |->
        lock[CHOOSE i \in DOMAIN lock :
                 /\ lock[i].Name = n
                 /\ \A j \in DOMAIN lock : lock[j].Name = n => j >= i].Version]

\* lockedPackages: the map built from lockfile.Package; a later entry
\* overwrites an earlier one of the same name.
lockedPackages(lock) ==
    [n \in {lock[i].Name : i \in DOMAIN lock} |->
        lock[CHOOSE i \in DOMAIN lock :
                 /\ lock[i].Name = n
                 /\ \A j \in DOMAIN lock : lock[j].Name = n => j <= i].Version]

\* checkLocked with the unparsable locked version reported as a problem of
\* the specifier instead of ending the run.
checkLockedReported(name, rawVersion, versionSpec, rawLockedVersion) ==
    LET lockedVersion == Parse(rawLockedVersion)
        shown == String(lockedVersion.release)
    IN  IF ~lockedVersion.ok \/ ~Check(versionSpec, lockedVersion.release)
        THEN Returned(<<"version mismatch (expected: ">> \o shown \o <<")">>)
        ELSE IF ~Contains(rawVersion, EqEq)
             THEN Returned(<<"must specify an exact version (expected: ">>
                           \o name \o EqEq \o shown \o <<")">>)
        ELSE Returned(<<>>)

\* The checks of checkVersion after the lookup: the locked version against
\* the constraint.
checkLocked(name, rawVersion, versionSpec, rawLockedVersion) ==
    LET lockedVersion == Parse(rawLockedVersion)
        shown == String(lockedVersion.release)
    IN  IF ~lockedVersion.ok THEN Panicked
        ELSE IF ~Check(versionSpec, lockedVersion.release)
             THEN Returned(<<"version mismatch (expected: ">> \o shown \o <<")">>)
        ELSE IF ~Contains(rawVersion, EqEq)
             THEN Returned(<<"must specify an exact version (expected: ">>
                           \o name \o EqEq \o shown \o <<")">>)
        ELSE IF Contains(rawVersion, <<"=", "=", "=">>)
             THEN Returned(<<"arbitrary equality (===) not permitted (expected: ">>
                           \o name \o EqEq \o shown \o <<")">>)
        ELSE IF Contains(rawVersion, Wildcard)
             THEN Returned(<<"trailing .* not permitted">>)
        ELSE Returned(<<>>)

\* checkMatched with the lookup made before the constraint is parsed.
checkMatchedLookupFirst(name, rawVersion, lock) ==
    LET versionSpec == NewSpecifiers(rawVersion)
        locked == lockedPackages(lock)
    IN  IF rawVersion = <<>> THEN Returned(<<"empty version spec not permitted">>)
        ELSE IF name \notin DOMAIN locked THEN Returned(<<"not found in poetry.lock">>)
        ELSE IF ~versionSpec.ok THEN Returned(<<"invalid version specification">>)
        ELSE checkLocked(name, rawVersion, versionSpec, locked[name])

\* The checks of checkVersion on a specifier the grammar matched.
checkMatched(name, rawVersion, lock) ==
    LET versionSpec == NewSpecifiers(rawVersion)
        locked == lockedPackages(lock)
    IN  IF rawVersion = <<>> THEN Returned(<<"empty version spec not permitted">>)
        ELSE IF ~versionSpec.ok THEN Returned(<<"invalid version specification">>)
        ELSE IF name \notin DOMAIN locked THEN Returned(<<"not found in poetry.lock">>)
        ELSE checkLocked(name, rawVersion, versionSpec, locked[name])

\* checkMarker deciding by the presence of @ anywhere, not by the first of
\* the two characters.
checkMarkerAnywhere(spec, idx) ==
    IF Contains(spec, <<"@">>)
    THEN Returned(<<"URLs not permitted">>)
    ELSE Returned(<<"environment markers not permitted">>)

\* The rejection of environment markers and URLs: the first of ; and @
\* decides (idx is the position IndexAny found).
checkMarker(spec, idx) ==
    IF spec[idx] = ";"
    THEN Returned(<<"environment markers not permitted">>)
    ELSE Returned(<<"URLs not permitted">>)

\* checkVersion with the grammar matched before markers and URLs are looked
\* for.
checkVersionGrammarFirst(spec, lock) ==
    LET trimmed == TrimSpace(spec)
        idx == IndexAny(trimmed, {";", "@"})
        matches == pat(trimmed)
    IN  IF ~matches.ok THEN Returned(<<"invalid dependency specification">>)
        ELSE IF idx # 0 THEN checkMarker(trimmed, idx)
        ELSE checkMatched(matches.name, matches.rawVersion, lock)

checkVersion(spec, lock) ==
    LET trimmed == TrimSpace(spec)
        idx == IndexAny(trimmed, {";", "@"})
        matches == pat(trimmed)
    IN  IF idx # 0 THEN checkMarker(trimmed, idx)
        ELSE IF ~matches.ok THEN Returned(<<"invalid dependency specification">>)
        ELSE checkMatched(matches.name, matches.rawVersion, lock)

----------------------------------------------------------------------------
(* checkVersions *)

\* slices.Contains(hookIds, id)
SlicesContains(hookIds, id) == \E i \in DOMAIN hookIds : hookIds[i] = id

\* fmt.Sprintf("%v: %v", depspec, problem)
Sprintf(spec, problem) == spec \o <<": ">> \o problem

\* appendProblem without the test of the problem: compliant specifiers are
\* listed too.
appendProblemAlways(problems, spec, problem) == Append(problems, Sprintf(spec, problem))

\* if problem != "" { problems = append(problems, fmt.Sprintf(...)) }
appendProblem(problems, spec, problem) ==
    IF problem # <<>> THEN Append(problems, Sprintf(spec, problem)) ELSE problems

\* The innermost loop: the dependencies of one selected hook, appended to
\* the problems found so far.  A panic of checkVersion ends the call.
RECURSIVE checkDependencies(_, _, _)
\* nextDependency leaving the loop at the first problem of a hook.
nextDependencyBreak(deps, lock, problems, r) ==
    IF r.panic THEN Panicked
    ELSE IF r.problem # <<>> THEN Returned(Append(problems, Sprintf(Head(deps), r.problem)))
    ELSE checkDependencies(Tail(deps), lock, problems)

\* The rest of the loop once checkVersion has produced r for the first of deps.
nextDependency(deps, lock, problems, r) ==
    IF r.panic THEN Panicked
    ELSE checkDependencies(Tail(deps), lock, appendProblem(problems, Head(deps), r.problem))

checkDependencies(deps, lock, problems) ==
    IF Len(deps) = 0 THEN Returned(problems)
    ELSE nextDependency(deps, lock, problems, checkVersion(Head(deps), lock))

\* The loop over the hooks of one repo.
RECURSIVE checkHooks(_, _, _, _)
\* The rest of the loop once the first of hooks has produced r.
nextHook(hooks, lock, hookIds, r) ==
    IF r.panic THEN Panicked ELSE checkHooks(Tail(hooks), lock, hookIds, r.problem)

checkHooks(hooks, lock, hookIds, problems) ==
    IF Len(hooks) = 0 THEN Returned(problems)
    ELSE nextHook(hooks, lock, hookIds,
                  IF SlicesContains(hookIds, Head(hooks).Id)
                  THEN checkDependencies(Head(hooks).AdditionalDependencies, lock, problems)
                  ELSE Returned(problems))

\* The loop over the repos.
RECURSIVE checkRepos(_, _, _, _)
\* The rest of the loop once the first of repos has produced r.
nextRepo(repos, lock, hookIds, r) ==
    IF r.panic THEN Panicked ELSE checkRepos(Tail(repos), lock, hookIds, r.problem)

checkRepos(repos, lock, hookIds, problems) ==
    IF Len(repos) = 0 THEN Returned(problems)
    ELSE nextRepo(repos, lock, hookIds, checkHooks(Head(repos).Hooks, lock, hookIds, problems))

\* checkVersions looping over the hook ids first and over the
\* configuration for each of them.
RECURSIVE checkByHookId(_, _, _, _)
nextHookId(cfg, lock, ids, r) ==
    IF r.panic THEN Panicked ELSE checkByHookId(cfg, lock, Tail(ids), r.problem)

checkByHookId(cfg, lock, ids, problems) ==
    IF Len(ids) = 0 THEN Returned(problems)
    ELSE nextHookId(cfg, lock, ids, checkRepos(cfg, lock, <<Head(ids)>>, problems))

checkVersionsByHookId(cfg, lock, ids) == checkByHookId(cfg, lock, ids, <<>>)

\* checkVersions: problem holds the list of problems (nil is <<>>).
checkVersions(cfg, lock, hookIds) == checkRepos(cfg, lock, hookIds, <<>>)

----------------------------------------------------------------------------
(* The inputs *)

\* The longest run of separator characters in a drawn package name
MaxRun == 2
\* The most packages in a drawn lockfile
MaxPackages == 2
\* The most hooks in a drawn configuration, over all its repos
MaxHooks == 2

\* Every non-empty run of at most MaxRun separator characters
SeparatorRuns == UNION {[1..n -> Separators] : n \in 1..MaxRun}

\* "a-b" in every spelling of its case and of its separator run
NameSpellings == {<<x>> \o r \o <<"b">> : x \in {"a", "A"}, r \in SeparatorRuns}

\* Names the lockfile uses, a name it never holds, and two that are no names
FewNames == {<<"a", "-", "b">>, <<"c">>, <<"d">>}
BadNames == {<<"-", "a">>, <<"a", "-">>}

\* Version constraints: single and several clauses, every comparator, with
\* and without blanks and parentheses, well and ill formed
FewConstraints ==
    {
      <<"=", "=", "1", ".", "0">>,
      <<"=", "=", "2", ".", "0">>,
      <<">", "=", "1", ".", "0">> }
Constraints ==
    FewConstraints \cup
    {
      <<"=", "=", "1">>,
      <<"=", "=", "1", ".", "0", ".", "0">>,
      <<"=", "=", "1", "0">>,
      <<"=", "=", " ", "1", ".", "0">>,
      <<">", "=", "2">>,
      <<"<", "=", "1", ".", "0">>,
      <<"<", "2">>,
      <<">", "1", ".", "0">>,
      <<">", "0">>,
      <<"!", "=", "2", ".", "0">>,
      <<"!", "=", "1", ".", "0">>,
      <<"~", "=", "1", ".", "0">>,
      <<"~", "=", "1">>,
      <<"=", "=", "=", "1", ".", "0">>,
      <<"=", "=", "=", "1">>,
      <<"=", "=", "1", ".", "*">>,
      <<"=", "=", "2", ".", "*">>,
      <<">", "=", "1", ".", "*">>,
      <<"=", "=", "1", ".", ".", "0">>,
      <<"=", "=", "1", ".">>,
      <<"=", "1", ".", "0">>,
      <<"1", ".", "0">>,
      <<"(", "=", "=", "1", ".", "0", ")">>,
      <<"(", " ", ">", "=", "1", " ", ")">>,
      <<"(", "=", "=", "1", ".", "0">>,
      <<">", "=", "1", ",", "<", "2">>,
      <<">", "=", "1", ",", "=", "=", "1", ".", "0">>,
      <<"=", "=", "1", ".", "0", ",", "=", "=", "1">>,
      <<"=", "=", "1", ".", "0", ",", ">", "=", "2">>,
      <<"=", "=", "1", ".", "0", ",", "!", "=", "1", ".", "0">>,
      <<">", "=", "1", " ", ",", " ", "=", "=", "1", ".", "0">>,
      <<"=", "=", "1", ".", "0", ",", "=", "=", "=", "1", ".", "0">>,
      <<">", "=", "1", ",", "=", "=", "1", ".", "*">>,
      <<"=", "=", "1", ".", "0", ",">>,
      <<">", "=", "1", ",", "<", "3", ",", "=", "=", "1", ".", "0">>,
      <<"=", "=", "1", ".", "0", ",", "=", "=", "1", ".", ".", "0">> }

Extras ==
    {
      <<"[", "x", "]">>,
      <<"[", "x", ",", "y", "]">>,
      <<"[", " ", "]">>,
      <<" ", "[", " ", "x", " ", ",", " ", "y", " ", "]", " ">>,
      <<"[", "x">>,
      <<"[", "-", "x", "]">>,
      <<"[", "x", " ", "y", "]">> }

\* Texts put after and before a specifier: markers, URLs and both
Suffixes ==
    {
      <<" ", ";", " ", "m">>,
      <<";">>,
      <<"@", "u">>,
      <<" ", "@", " ", "u", ";", "m">>,
      <<";", "m", "@", "u">>,
      <<" ", "@", " ", "u">> }
Prefixes ==
    {
      <<";">>,
      <<"@">> }
Blank == <<" ">>

BaseSpecs ==
    {
      <<"a", "-", "b", "=", "=", "1", ".", "0">>,
      <<"a", "-", "b">>,
      <<"a", " ", "b">>,
      <<"d", "=", "=", "1", ".", "0">> }

\* The specifiers checkVersion is called with
DepSpecs ==
    {n \o c : n \in NameSpellings, c \in FewConstraints \cup {<<>>}}
    \cup {n \o c : n \in FewNames, c \in Constraints \cup {<<>>}}
    \cup {n \o c : n \in BadNames, c \in FewConstraints \cup {<<>>}}
    \cup {<<"a", "-", "b">> \o e \o c : e \in Extras, c \in FewConstraints \cup {<<>>}}
    \cup {b \o x : b \in BaseSpecs, x \in Suffixes}
    \cup {x \o b : b \in BaseSpecs, x \in Prefixes}
    \cup {Blank \o b \o Blank : b \in BaseSpecs}
    \cup {<<>>, Blank}

\* The packages of poetry.lock: "a-b" and "c" at two versions each, one of
\* them (the version a package entry without a version field has) no version
Packages ==
    { [Name |-> <<"a", "-", "b">>, Version |-> <<"1", ".", "0">>],
      [Name |-> <<"a", "-", "b">>, Version |-> <<"2", ".", "0">>],
      [Name |-> <<"c">>, Version |-> <<"1", ".", "0", ".", "0">>],
      [Name |-> <<"c">>, Version |-> <<>>] }

Lockfiles == UNION {[1..n -> Packages] : n \in 0..MaxPackages}

----------------------------------------------------------------------------
(* checkVersion called on one specifier: the specification SpecCV *)

\* No call has produced anything yet.
NoOutcome == Returned(<<>>)

InitCV ==
    /\ pc = "checkVersion"
    /\ depspec \in DepSpecs
    /\ lockfile \in Lockfiles
    /\ config = <<>>
    /\ args = <<>>
    /\ outcome = NoOutcome
    /\ stdout = <<>>
    /\ exitStatus = 0 - 1

\* problem := checkVersion(depspec, lockfile)
CallCheckVersion ==
    /\ pc = "checkVersion"
    /\ outcome' = checkVersion(depspec, lockfile)
    /\ pc' = IF outcome'.panic THEN "panicked" ELSE "returned"
    /\ UNCHANGED <<config, lockfile, args, depspec, stdout, exitStatus>>

NextCV == CallCheckVersion

SpecCV == InitCV /\ [][NextCV]_vars

----------------------------------------------------------------------------
(* Name normalization, as the specification and TestNormalizeName give it: *)
(* lowercase, then every run of - _ . becomes one -                        *)

ToLower(c) ==
    IF c \in Upper THEN LowerSeq[CHOOSE i \in DOMAIN UpperSeq : UpperSeq[i] = c] ELSE c

\* normalizeName with every separator character made a - of its own, the run
\* not collapsed.
normalizeNameEachSeparator(name) ==
    [i \in DOMAIN name |-> IF name[i] \in Separators THEN "-" ELSE ToLower(name[i])]

RECURSIVE normalizeName(_)
normalizeName(name) ==
    IF Len(name) = 0 THEN <<>>
    ELSE IF name[1] \in Separators
         THEN <<"-">> \o normalizeName(Slice(name, SkipSet(name, 1, Separators), Len(name)))
    ELSE <<ToLower(name[1])>> \o normalizeName(Tail(name))

----------------------------------------------------------------------------
(* normalizeName called on one name: the specification SpecNN.  depspec   *)
(* holds the name (test.in) and outcome what the call returned (got).     *)

\* The longest of the short names drawn over a small alphabet
MaxName == 3

Friendly == <<"f", "r", "i", "e", "n", "d", "l", "y">>
Bard == <<"b", "a", "r", "d">>
FriendlyBard == Friendly \o <<"-">> \o Bard

ToUpper(c) ==
    IF c \in Lower THEN UpperSeq[CHOOSE i \in DOMAIN LowerSeq : LowerSeq[i] = c] ELSE c

\* word in every mix of upper and lower case
Casings(word) ==
    {[i \in DOMAIN word |-> IF i \in U THEN ToUpper(word[i]) ELSE word[i]] :
        U \in SUBSET DOMAIN word}

\* The names of TestNormalizeName
TestNames ==
    { FriendlyBard,
      <<"F", "r", "i", "e", "n", "d", "l", "y", "-", "B", "a", "r", "d">>,
      <<"F", "R", "I", "E", "N", "D", "L", "Y", "-", "B", "A", "R", "D">>,
      Friendly \o <<".">> \o Bard,
      Friendly \o <<"_">> \o Bard,
      Friendly \o <<"-", "-">> \o Bard,
      <<"F", "r", "I", "e", "N", "d", "L", "y", "-", ".", "_", ".", "-", "b", "A", "r", "D">> }

\* Every name over a letter of each case, a digit and the separators
ShortNames == UNION {[1..n -> {"a", "B", "1"} \cup Separators] : n \in 0..MaxName}

Names ==
    {f \o r \o b : f \in Casings(Friendly), r \in SeparatorRuns, b \in Casings(Bard)}
    \cup TestNames \cup ShortNames

InitNN ==
    /\ pc = "normalizeName"
    /\ depspec \in Names
    /\ outcome = <<>>
    /\ lockfile = <<>>
    /\ config = <<>>
    /\ args = <<>>
    /\ stdout = <<>>
    /\ exitStatus = 0 - 1

\* CallNormalizeName with the separator runs of the name not collapsed.
CallNormalizeNameEachSeparator ==
    /\ pc = "normalizeName"
    /\ outcome' = normalizeNameEachSeparator(depspec)
    /\ pc' = "normalized"
    /\ UNCHANGED <<config, lockfile, args, depspec, stdout, exitStatus>>

\* got := normalizeName(test.in)
CallNormalizeName ==
    /\ pc = "normalizeName"
    /\ outcome' = normalizeName(depspec)
    /\ pc' = "normalized"
    /\ UNCHANGED <<config, lockfile, args, depspec, stdout, exitStatus>>

NextNN == CallNormalizeName

SpecNN == InitNN /\ [][NextNN]_vars

\* name in lower case
LowerCased(name) == [i \in DOMAIN name |-> ToLower(name[i])]
\* name is friendly-bard in some mix of case, the two words apart by some
\* non-empty run of separators
SpellsFriendlyBard(name) ==
    /\ Len(name) > Len(Friendly) + Len(Bard)
    /\ LowerCased(Slice(name, 1, Len(Friendly))) = Friendly
    /\ LowerCased(Slice(name, Len(name) - Len(Bard) + 1, Len(name))) = Bard
    /\ \A i \in (Len(Friendly) + 1)..(Len(name) - Len(Bard)) : name[i] \in Separators

\* C11: normalizing a normalized name changes nothing, and every spelling of
\* friendly-bard, in any mix of case and with any run of - _ . between the
\* two words, normalizes to exactly friendly-bard.
C11_IdempotentInsensitive ==
    pc = "normalized" =>
        /\ normalizeName(outcome) = outcome
        /\ SpellsFriendlyBard(depspec) => outcome = FriendlyBard

\* C11 witness: FrIeNdLy-._.-bArD was normalized to friendly-bard.
C11_Witness ==
    /\ pc = "normalized"
    /\ depspec = <<"F", "r", "I", "e", "N", "d", "L", "y", "-", ".", "_", ".", "-",
                   "b", "A", "r", "D">>
    /\ outcome = FriendlyBard

----------------------------------------------------------------------------
(* The claims about checkVersion, under SpecCV *)

\* The trimmed specifier and what the grammar made of it
Trimmed == TrimSpace(depspec)
Matches == pat(Trimmed)
\* The specifier passed the parser: no marker, no URL, the grammar matched
PassesParser == IndexAny(Trimmed, {";", "@"}) = 0 /\ Matches.ok
\* The locked version the lookup finds for the specifier's name
Locked == lockedPackages(lockfile)
NameLocked == Matches.name \in DOMAIN Locked
LockedRelease == Parse(Locked[Matches.name]).release
LockedText == String(LockedRelease)
Expected == Matches.name \o EqEq \o LockedText

\* Whether rule k of the matcher applies to the specifier (8: none does).
Applies(k) ==
    LET raw == Matches.rawVersion
        usable == NewSpecifiers(raw).ok /\ NameLocked /\ Parse(Locked[Matches.name]).ok
    IN  CASE k = 1 -> raw = <<>>
          [] k = 2 -> ~NewSpecifiers(raw).ok
          [] k = 3 -> ~NameLocked
          [] k = 4 -> usable /\ ~Check(NewSpecifiers(raw), LockedRelease)
          [] k = 5 -> ~Contains(raw, EqEq)
          [] k = 6 -> Contains(raw, <<"=", "=", "=">>)
          [] k = 7 -> Contains(raw, Wildcard)
          [] OTHER -> TRUE

\* The problem rule k reports.
RuleText(k) ==
    CASE k = 1 -> <<"empty version spec not permitted">>
      [] k = 2 -> <<"invalid version specification">>
      [] k = 3 -> <<"not found in poetry.lock">>
      [] k = 4 -> <<"version mismatch (expected: ">> \o LockedText \o <<")">>
      [] k = 5 -> <<"must specify an exact version (expected: ">> \o Expected \o <<")">>
      [] k = 6 -> <<"arbitrary equality (===) not permitted (expected: ">>
                  \o Expected \o <<")">>
      [] k = 7 -> <<"trailing .* not permitted">>
      [] OTHER -> <<>>

RuleNumbers == 1..8
FirstRule == CHOOSE k \in RuleNumbers : Applies(k) /\ \A j \in 1..(k - 1) : ~Applies(j)

FirstDelimiter == IndexAny(depspec, {";", "@"})

\* C2 as stated: every specifier containing ; anywhere is answered with
\* "environment markers not permitted".
C2_AnySemicolon ==
    (pc # "checkVersion" /\ Contains(depspec, <<";">>))
        => outcome = Returned(<<"environment markers not permitted">>)

\* C2 amended: a specifier whose first ; comes before any @ is answered with
\* "environment markers not permitted".
C2_SemicolonFirst ==
    (pc # "checkVersion" /\ FirstDelimiter # 0 /\ depspec[FirstDelimiter] = ";")
        => outcome = Returned(<<"environment markers not permitted">>)

\* C2 witness: a specifier with a ; followed later by an @ was answered with
\* the marker problem.
C2_Witness ==
    /\ pc = "returned"
    /\ FirstDelimiter # 0 /\ depspec[FirstDelimiter] = ";"
    /\ Contains(depspec, <<"@">>)
    /\ outcome.problem = <<"environment markers not permitted">>

\* C3: the first of ; and @ decides between the marker and the URL problem,
\* and a specifier holding either character gets exactly that problem: never
\* a grammar or matcher problem, and no panic.
C3_FirstDelimiterDecides ==
    (pc # "checkVersion" /\ FirstDelimiter # 0)
        => outcome = IF depspec[FirstDelimiter] = "@"
                     THEN Returned(<<"URLs not permitted">>)
                     ELSE Returned(<<"environment markers not permitted">>)

\* C3 witness: a specifier the grammar rejects, with an @ before a ;, was
\* answered with the URL problem.
C3_Witness ==
    /\ pc = "returned"
    /\ FirstDelimiter # 0 /\ depspec[FirstDelimiter] = "@"
    /\ Contains(depspec, <<";">>)
    /\ ~Matches.ok
    /\ outcome.problem = <<"URLs not permitted">>

\* C4 as stated: a specifier whose name normalizes to the normalized name of
\* a lockfile package is never reported as not found.
C4_NormalizedLookup ==
    (/\ pc = "returned" /\ PassesParser
     /\ \E i \in DOMAIN lockfile :
            normalizeName(lockfile[i].Name) = normalizeName(Matches.name))
        => outcome.problem # <<"not found in poetry.lock">>

\* The condition under which checkVersion reaches the parse of a locked
\* version, and that version is no version.
ReachesUnparsable ==
    /\ PassesParser
    /\ Matches.rawVersion # <<>>
    /\ NewSpecifiers(Matches.rawVersion).ok
    /\ NameLocked
    /\ ~Parse(Locked[Matches.name]).ok

\* C7 as stated: with an unparsable version anywhere in the lockfile the call
\* panics, whichever specifier is checked.
C7_AnyUnparsableAborts ==
    (pc # "checkVersion" /\ \E i \in DOMAIN lockfile : ~Parse(lockfile[i].Version).ok)
        => pc = "panicked"

\* C7 amended: checkVersion panics exactly when the specifier passes the
\* parser, has a constraint that parses, and names a package whose version
\* in the lockfile (the last entry of that name) does not parse; it then
\* returns no problem string.
C7_AbortsWhenLookedUp ==
    pc # "checkVersion" => (outcome = Panicked <=> ReachesUnparsable)

\* C7 witness: a call panicked on the unparsable version of the package the
\* specifier names.
C7_Witness == pc = "panicked" /\ outcome.panic /\ ReachesUnparsable

\* C9 as stated: a specifier is accepted only if its constraint is one ==
\* clause, without wildcard, whose version equals the locked one.
C9_OnlySingleExactClause ==
    (pc = "returned" /\ outcome.problem = <<>>)
        => /\ PassesParser /\ NameLocked
           /\ LET clauses == versionManyPat(Matches.rawVersion, 1).clauses
              IN  /\ Len(clauses) = 1
                  /\ clauses[1].operator = EqEq
                  /\ Parse(clauses[1].version).ok
                  /\ Compare(Parse(clauses[1].version).release, LockedRelease) = 0

\* The characters of a name, and the longest run of them the trimmed
\* specifier starts with: the name as written, and what follows it
NameChars == Alnum \cup Separators
NamePart == Slice(Trimmed, 1, SkipSet(Trimmed, 1, NameChars) - 1)
AfterName == Slice(Trimmed, Len(NamePart) + 1, Len(Trimmed))
DoubledSeparator(n) ==
    \E i \in 1..(Len(n) - 1) : n[i] \in Separators /\ n[i + 1] \in Separators
EdgeSeparator(n) == Len(n) > 0 /\ (n[1] \in Separators \/ n[Len(n)] \in Separators)
InvalidSpecification == Returned(<<"invalid dependency specification">>)

\* C12 as stated: a specifier whose name has two or more separators in a
\* row, or starts or ends with a separator, is rejected with "invalid
\* dependency specification".
C12_SingleSeparatorOnly ==
    (/\ pc # "checkVersion" /\ FirstDelimiter = 0
     /\ (DoubledSeparator(NamePart) \/ EdgeSeparator(NamePart)))
        => outcome = InvalidSpecification

\* C12 amended: a specifier whose name starts or ends with a separator is
\* rejected with "invalid dependency specification"; a name that starts and
\* ends with a letter or digit is accepted by the parser with any runs of
\* separators inside it, so that the specifier with a plain constraint or
\* none after the name is answered by the matcher and not rejected.
C12_SeparatorRunsAccepted ==
    (pc # "checkVersion" /\ FirstDelimiter = 0)
        => /\ EdgeSeparator(NamePart) => outcome = InvalidSpecification
           /\ (/\ NamePart # <<>> /\ ~EdgeSeparator(NamePart)
               /\ AfterName \in FewConstraints \cup {<<>>})
                  => /\ outcome # InvalidSpecification
                     /\ Matches.ok /\ Matches.name = NamePart

\* C12 witness: a specifier whose name has two separators in a row passed
\* the parser and was answered by the lookup of that name.
C12_Witness ==
    /\ pc = "returned" /\ FirstDelimiter = 0
    /\ DoubledSeparator(NamePart) /\ ~EdgeSeparator(NamePart)
    /\ AfterName \in FewConstraints
    /\ outcome.problem = <<"not found in poetry.lock">>

\* list with e put in after its k-th element
InsertAt(list, k, e) == Slice(list, 1, k) \o <<e>> \o Slice(list, k + 1, Len(list))
\* The entry at i is the last one of its name in lock.
LastOfName(lock, i) == \A j \in (i + 1)..Len(lock) : lock[j].Name # lock[i].Name

\* C13: checkVersion answers as if the lockfile held, of the package the
\* specifier names, only the last-listed entry; and one more entry of a name
\* put in anywhere before an entry of that name changes nothing of the
\* answer, whatever its version.
C13_LastWins ==
    pc # "checkVersion" =>
        /\ \A i \in DOMAIN lockfile :
               (PassesParser /\ Matches.name = lockfile[i].Name /\ LastOfName(lockfile, i))
                   => outcome = checkVersion(depspec, <<lockfile[i]>>)
        /\ \A e \in Packages, k \in 0..(Len(lockfile) - 1) :
               (\E j \in (k + 1)..Len(lockfile) : lockfile[j].Name = e.Name)
                   => checkVersion(depspec, InsertAt(lockfile, k, e)) = outcome

\* C13 witness: the lockfile lists the package the specifier pins twice, at
\* two versions; the pin is the later one and the specifier was found
\* compliant.
C13_Witness ==
    /\ pc = "returned" /\ PassesParser
    /\ Len(lockfile) = 2
    /\ lockfile[1].Name = Matches.name /\ lockfile[2].Name = Matches.name
    /\ lockfile[1].Version # lockfile[2].Version
    /\ outcome.problem = <<>>
    /\ checkVersion(depspec, <<lockfile[1]>>).problem # <<>>

----------------------------------------------------------------------------
(* The root command: the specification Spec *)

\* The hooks of the drawn configurations
HookPool ==
    { [Id |-> "flake8",
       AdditionalDependencies |->
           << <<"a", "-", "b", "=", "=", "1", ".", "0">>,
              <<"a", "-", "b", "=", "=", "2", ".", "0">> >>],
      [Id |-> "mypy",
       AdditionalDependencies |->
           << <<"a", " ", "b">>,
              <<"c", "=", "=", "1", ".", "0", ".", "0">> >>],
      [Id |-> "isort", AdditionalDependencies |-> <<>>],
      [Id |-> "flake8",
       AdditionalDependencies |->
           << <<"c", "=", "=", "1", ".", "0", ".", "0">>,
              <<" ", "a", "-", "b", ">", "=", "1", ".", "0", " ">>,
              <<"a", "-", "b">> >>] }

\* hs cut into repos: a repo ends after every position in cuts and at the end.
RECURSIVE Split(_, _)
Split(hs, cuts) ==
    IF Len(hs) = 0 THEN <<>>
    ELSE LET ends == {i \in cuts : i < Len(hs)} \cup {Len(hs)}
             e == CHOOSE i \in ends : \A j \in ends : i <= j
         IN  <<[Hooks |-> SubSeq(hs, 1, e)]>>
             \o Split(SubSeq(hs, e + 1, Len(hs)), {i - e : i \in {j \in cuts : j > e}})

\* The configurations: at most MaxHooks hooks in file order, cut into repos
\* in every way, and the shortest of them between two repos without hooks.
SplitConfigs ==
    UNION {{Split(hs, cuts) : hs \in [1..n -> HookPool], cuts \in SUBSET (1..(n - 1))}
           : n \in 0..MaxHooks}
NoHooks == [Hooks |-> <<>>]
Configs ==
    SplitConfigs \cup {<<NoHooks>> \o c \o <<NoHooks>> : c \in {x \in SplitConfigs : Len(x) <= 1}}

\* The lockfiles of a run: none locked, both locked, one without a version
RunLockfiles ==
    { <<>>,
      <<[Name |-> <<"a", "-", "b">>, Version |-> <<"1", ".", "0">>],
        [Name |-> <<"c">>, Version |-> <<"1", ".", "0", ".", "0">>]>>,
      <<[Name |-> <<"a", "-", "b">>, Version |-> <<"1", ".", "0">>],
        [Name |-> <<"c">>, Version |-> <<>>]>> }

\* The hook ids given on the command line
ArgsPool ==
    { <<>>, <<"flake8">>, <<"mypy", "flake8">>, <<"isort", "flake8", "flake8">> }

\* args = []string{"black", "flake8", "isort", "mypy"} when none is given
DefaultArgs == <<"black", "flake8", "isort", "mypy">>
hookIds == IF Len(args) = 0 THEN DefaultArgs ELSE args

Init ==
    /\ pc = "readPreCommitFile"
    /\ args \in ArgsPool
    /\ config = <<>>
    /\ lockfile = <<>>
    /\ depspec = <<>>
    /\ outcome = NoOutcome
    /\ stdout = <<>>
    /\ exitStatus = 0 - 1

\* panic(err): the Go runtime ends the process with status 2.
Panic ==
    /\ pc' = "panicked"
    /\ exitStatus' = 2

\* file, err := readPreCommitFile(os.DirFS(".")): the file is there or not.
ReadPreCommitFile ==
    /\ pc = "readPreCommitFile"
    /\ \/ pc' = "loadPreCommitConfig" /\ UNCHANGED exitStatus
       \/ Panic
    /\ UNCHANGED <<config, lockfile, args, depspec, outcome, stdout>>

\* data, err := loadPreCommitConfig(file): it is YAML of that shape or not.
LoadPreCommitConfig ==
    /\ pc = "loadPreCommitConfig"
    /\ \/ /\ config' \in Configs
          /\ pc' = "loadPoetryLock"
          /\ UNCHANGED exitStatus
       \/ Panic /\ UNCHANGED config
    /\ UNCHANGED <<lockfile, args, depspec, outcome, stdout>>

\* lockfile, err := loadPoetryLock(os.DirFS(".")): read and parsed, or not.
LoadPoetryLock ==
    /\ pc = "loadPoetryLock"
    /\ \/ /\ lockfile' \in RunLockfiles
          /\ pc' = "checkVersions"
          /\ UNCHANGED exitStatus
       \/ Panic /\ UNCHANGED lockfile
    /\ UNCHANGED <<config, args, depspec, outcome, stdout>>

\* problems := checkVersions(data, lockfile, args), with the default args;
\* with no problem Run returns and the process ends with status 0.
CheckVersions ==
    /\ pc = "checkVersions"
    /\ outcome' = checkVersions(config, lockfile, hookIds)
    /\ \/ outcome'.panic /\ Panic
       \/ /\ ~outcome'.panic /\ Len(outcome'.problem) > 0
          /\ pc' = "println"
          /\ UNCHANGED exitStatus
       \/ /\ ~outcome'.panic /\ Len(outcome'.problem) = 0
          /\ pc' = "done"
          /\ exitStatus' = 0
    /\ UNCHANGED <<config, lockfile, args, depspec, stdout>>

\* fmt.Println(problem), for the next problem of the range loop
Println ==
    /\ pc = "println"
    /\ Len(stdout) < Len(outcome.problem)
    /\ stdout' = Append(stdout, outcome.problem[Len(stdout) + 1])
    /\ UNCHANGED <<pc, config, lockfile, args, depspec, outcome, exitStatus>>

\* Exit inside the range loop, after the first line
ExitAfterFirstLine ==
    /\ pc = "println"
    /\ Len(stdout) >= 1
    /\ pc' = "exited"
    /\ exitStatus' = 1
    /\ UNCHANGED <<config, lockfile, args, depspec, outcome, stdout>>

\* os.Exit(1), after the range loop
Exit ==
    /\ pc = "println"
    /\ Len(stdout) = Len(outcome.problem)
    /\ pc' = "exited"
    /\ exitStatus' = 1
    /\ UNCHANGED <<config, lockfile, args, depspec, outcome, stdout>>

Next ==
    \/ ReadPreCommitFile
    \/ LoadPreCommitConfig
    \/ LoadPoetryLock
    \/ CheckVersions
    \/ Println
    \/ Exit

Spec == Init /\ [][Next]_vars

----------------------------------------------------------------------------
(* The claims about checkVersions and the root command, under Spec *)

\* The places of the dependency specifiers of the configuration: repo, hook
\* in the repo, dependency in the hook
Positions ==
    UNION {UNION {{<<r, h, d>> : d \in DOMAIN config[r].Hooks[h].AdditionalDependencies}
                  : h \in DOMAIN config[r].Hooks}
           : r \in DOMAIN config}
\* File order
Before(p, q) ==
    \/ p[1] < q[1]
    \/ p[1] = q[1] /\ p[2] < q[2]
    \/ p[1] = q[1] /\ p[2] = q[2] /\ p[3] < q[3]
DepAt(p) == config[p[1]].Hooks[p[2]].AdditionalDependencies[p[3]]
Selected(p) == config[p[1]].Hooks[p[2]].Id \in Range(hookIds)
\* checkVersion on every specifier of the configuration, each on its own
Evaluated == {[pos |-> p, out |-> checkVersion(DepAt(p), lockfile)] : p \in Positions}
OutAt(ev, p) == (CHOOSE e \in ev : e.pos = p).out
\* The selected specifiers checkVersion finds a problem with
ReportedIn(ev) ==
    {e.pos : e \in {x \in ev : Selected(x.pos) /\ ~x.out.panic /\ x.out.problem # <<>>}}
\* "<specifier as written>: <problem>"
LineIn(ev, p) == DepAt(p) \o <<": ">> \o OutAt(ev, p).problem
RankIn(rep, p) == 1 + Cardinality({q \in rep : Before(q, p)})
Occurrences(list, x) == Cardinality({i \in DOMAIN list : list[i] = x})

\* checkVersions has just returned its list.
JustReturned == pc \in {"println", "done"} /\ stdout = <<>>
\* checkVersions has just ended, by returning or by a panic.
JustEnded == JustReturned \/ (pc = "panicked" /\ outcome.panic)

\* C5: the list checkVersions returns holds, for every line, as many copies
\* as there are selected specifiers with a problem that line describes, as
\* "<specifier as written>: <problem>", and so nothing for a compliant
\* specifier or a hook that is not selected; with no hook id it is empty.
C5_ExactlyTheProblems ==
    JustReturned =>
        LET ev == Evaluated
            rep == ReportedIn(ev)
            lines == {<<q, LineIn(ev, q)>> : q \in rep}
        IN  /\ \A x \in Range(outcome.problem) \cup {l[2] : l \in lines} :
                   Occurrences(outcome.problem, x) = Cardinality({l \in lines : l[2] = x})
            /\ checkVersions(config, lockfile, <<>>) = Returned(<<>>)

\* C5 witness: a list was returned for a configuration with a compliant
\* selected specifier, a specifier with a problem in a hook that is not
\* selected, and a selected specifier written with blanks around it.
C5_Witness ==
    /\ JustReturned
    /\ LET ev == Evaluated
       IN  /\ \E p \in Positions : Selected(p) /\ OutAt(ev, p) = Returned(<<>>)
           /\ \E p \in Positions : ~Selected(p) /\ OutAt(ev, p).problem # <<>>
           /\ \E p \in ReportedIn(ev) : DepAt(p) # TrimSpace(DepAt(p))
    /\ Len(outcome.problem) >= 2

\* Every order of the hook ids
Reorderings(ids) ==
    {[i \in DOMAIN ids |-> ids[f[i]]] : f \in Permutations(DOMAIN ids)}

\* C6: the returned problems stand in file order (repo, then hook, then
\* dependency), and the outcome is the same for every order of the hook ids.
C6_InputOrder ==
    JustReturned =>
        LET ev == Evaluated
            rep == ReportedIn(ev)
        IN  /\ Len(outcome.problem) = Cardinality(rep)
            /\ \A p \in rep : outcome.problem[RankIn(rep, p)] = LineIn(ev, p)
            /\ \A ids \in Reorderings(hookIds) :
                   checkVersions(config, lockfile, ids) = outcome

\* C6 witness: problems of two hooks were returned, the hook that comes
\* first in the file being named last among the hook ids.
C6_Witness ==
    /\ JustReturned
    /\ LET ev == Evaluated
           rep == ReportedIn(ev)
       IN  \E p, q \in rep :
               /\ Before(p, q)
               /\ LineIn(ev, p) # LineIn(ev, q)
               /\ \E i, j \in DOMAIN hookIds :
                      /\ i < j
                      /\ hookIds[i] = config[q[1]].Hooks[q[2]].Id
                      /\ hookIds[j] = config[p[1]].Hooks[p[2]].Id

\* list without its k-th element
RemoveAt(list, k) == Slice(list, 1, k - 1) \o Slice(list, k + 1, Len(list))
\* The configuration without the specifier at p
RemoveDep(p) ==
    [config EXCEPT ![p[1]].Hooks[p[2]].AdditionalDependencies = RemoveAt(@, p[3])]
\* What a run reports of the problems: the list, nothing after a panic
Printed(o) == IF o.panic THEN <<>> ELSE o.problem
\* list without the line of the specifier at p, if it has one there
WithoutLineOf(list, rep, p) ==
    IF p \in rep /\ RankIn(rep, p) <= Len(list) THEN RemoveAt(list, RankIn(rep, p)) ELSE list

\* C8 as stated: removing a specifier changes nothing of what is reported
\* for the others.
C8_AlwaysIndependent ==
    JustEnded =>
        LET rep == ReportedIn(Evaluated)
        IN  \A p \in Positions :
                Printed(checkVersions(RemoveDep(p), lockfile, hookIds))
                    = WithoutLineOf(Printed(outcome), rep, p)

\* C8 amended: the call panics exactly when some selected specifier meets an
\* unparsable locked version, whatever was rejected before it; when none
\* does, removing any one specifier removes its own line from the returned
\* list and changes nothing else.
C8_IndependentUnlessAbort ==
    JustEnded =>
        LET ev == Evaluated
            rep == ReportedIn(ev)
        IN  /\ outcome.panic <=> \E e \in ev : Selected(e.pos) /\ e.out.panic
            /\ ~outcome.panic =>
                   \A p \in Positions :
                       checkVersions(RemoveDep(p), lockfile, hookIds)
                           = Returned(WithoutLineOf(outcome.problem, rep, p))

\* C8 witness: a list was returned that holds a grammar rejection and the
\* problem of a later specifier.
C8_Witness ==
    /\ JustReturned
    /\ LET ev == Evaluated
           rep == ReportedIn(ev)
       IN  \E p, q \in rep :
               /\ Before(p, q)
               /\ OutAt(ev, p).problem = <<"invalid dependency specification">>
               /\ outcome.problem[RankIn(rep, q)] = LineIn(ev, q)

Ended == pc \in {"done", "exited", "panicked"}
IsPrefix(a, b) == Len(a) <= Len(b) /\ Slice(b, 1, Len(a)) = a

\* C10 as stated: the command ends with a non-zero status if and only if
\* checkVersions returned a non-empty list, every line then being printed.
C10_NonZeroIffProblems ==
    Ended =>
        /\ exitStatus # 0 <=> (~outcome.panic /\ Len(outcome.problem) > 0)
        /\ exitStatus # 0 => stdout = outcome.problem

\* C10 amended: the command ends with status 1 if and only if checkVersions
\* returned a non-empty list, which is then printed whole and in order
\* before the exit; it ends with status 0, nothing printed, if and only if
\* the list is empty; in every other case (a file not read or not parsed, a
\* panic of checkVersion) it panics, status 2, nothing printed.
C10_ExitOneIffProblems ==
    /\ pc = "println" => exitStatus = 0 - 1 /\ IsPrefix(stdout, outcome.problem)
    /\ Ended =>
        /\ exitStatus \in {0, 1, 2}
        /\ exitStatus = 1 <=>
               /\ outcome = checkVersions(config, lockfile, hookIds)
               /\ ~outcome.panic /\ Len(outcome.problem) > 0
        /\ exitStatus = 1 => stdout = outcome.problem
        /\ exitStatus = 0 <=>
               /\ pc = "done"
               /\ outcome = checkVersions(config, lockfile, hookIds)
               /\ outcome = Returned(<<>>)
        /\ exitStatus # 1 => stdout = <<>>
        /\ exitStatus = 2 <=> pc = "panicked"

\* C10 witness: the command exited with status 1 after printing two or more
\* problems.
C10_Witness ==
    /\ pc = "exited" /\ exitStatus = 1
    /\ Len(stdout) >= 2
    /\ stdout = outcome.problem

====
